---- MODULE Spec2Model ----
(***************************************************************************)
(* BatchWriter of aioboto3/dynamodb/table.py: a buffer of put and delete   *)
(* requests for one table, de-duplicated on the configured primary keys,   *)
(* sent to batch_write_item in slices of flush_amount, with the            *)
(* unprocessed items requeued, and drained by __aexit__.                   *)
(*                                                                         *)
(* A task is one flow of control using the writer.  A task's steps are the *)
(* stretches of code between two suspension points: the await of           *)
(* batch_write_item and the await of asyncio.sleep.                        *)
(***************************************************************************)
EXTENDS Integers, Sequences, FiniteSets, TLC

VARIABLES
    items_buffer,        \* self._items_buffer
    flush_amount,        \* self._flush_amount
    overwrite_by_pkeys,  \* self._overwrite_by_pkeys, <<>> for None
    on_exit_loop_sleep,  \* self._on_exit_loop_sleep
    pc,                  \* where each task stands
    items_to_send,       \* _flush's local of each task awaiting the backend
    item_list,           \* _flush's local of each task: what its latest flush requeued
    outcome,             \* how each task's latest put_item/delete_item ended
    exc_type,            \* the exc_type each task's __aexit__ was given
    exit_error,          \* the error each task's __aexit__ ended with
    backend_ok,          \* TRUE once the backend answers in full and accepts everything
    nputs,               \* put_item/delete_item calls made so far
    nkeyerrors,          \* calls that ended in the KeyError of a missing pkey
    ncollisions,         \* calls that met a buffered request of equal pkeys
    ncalls,              \* batch_write_item calls made so far, up to MaxCalls
    buffer_ids,          \* for each request of items_buffer, the number of its call
    sent_ids,            \* for each request of items_to_send, the number of its call
    history              \* what became of the requests of the calls made so far

vars == <<items_buffer, flush_amount, overwrite_by_pkeys, on_exit_loop_sleep,
          pc, items_to_send, item_list, outcome, exc_type, exit_error, backend_ok,
          nputs, nkeyerrors, ncollisions, ncalls, buffer_ids, sent_ids, history>>

\* The record of the requests: a request is known by the number of the
\* put_item or delete_item call that brought it.  The writer reads none of it.
record == <<buffer_ids, sent_ids, history>>

config == <<flush_amount, overwrite_by_pkeys, on_exit_loop_sleep>>

-----------------------------------------------------------------------------
(* Bounds *)

MaxFlush == 3

MaxOps == 3

MaxCalls == 2

-----------------------------------------------------------------------------
(* Values, rows, keys and requests *)

Tasks == {"t1", "t2"}

Caller == "t1"

\* The values of attribute K, and those of attribute V.  The code reads a
\* value only to compare it with another: two of each give equal and
\* different pkey values, and equal pkey values in different rows.
KeyValues == {1, 2}

Values == {"a", "b"}

\* Item of put_item: the full rows, and a row that lacks attribute K.
Items == {[K |-> k, V |-> v] : k \in KeyValues, v \in Values} \cup {[V |-> "a"]}

\* Key of delete_item: the keys of the table (they hold no attribute V).
Keys == {[K |-> k] : k \in KeyValues}

PutRequest(Item) == [kind |-> "PutRequest", attrs |-> Item]

DeleteRequest(Key) == [kind |-> "DeleteRequest", attrs |-> Key]

Requests == {PutRequest(Item) : Item \in Items} \cup {DeleteRequest(Key) : Key \in Keys}

PkeyConfigs == {<<>>, <<"K">>, <<"K", "V">>}

Min(a, b) == IF a < b THEN a ELSE b

-----------------------------------------------------------------------------
(* _extract_pkey_values *)

\* request[...][key] finds every key of overwrite_by_pkeys (no KeyError).
HasPkeys(request, pkeys) ==
    \A i \in 1..Len(pkeys) : pkeys[i] \in DOMAIN request.attrs

\* The list of the request's values under the configured keys, in their order.
ExtractPkeyValues(request, pkeys) ==
    [i \in 1..Len(pkeys) |-> request.attrs[pkeys[i]]]

-----------------------------------------------------------------------------
(* _remove_dup_pkeys_request_if_any *)

\* list.remove(item): the list without its first element equal to item.
ListRemove(buf, item) ==
    IF \E i \in 1..Len(buf) : buf[i] = item
    THEN LET first == CHOOSE i \in 1..Len(buf) :
                          /\ buf[i] = item
                          /\ \A j \in 1..(i - 1) : buf[j] # item
         IN  [j \in 1..(Len(buf) - 1) |-> IF j < first THEN buf[j] ELSE buf[j + 1]]
    ELSE buf

\* The for loop over the list it removes from: the iterator's index moves on
\* by one after each element, whether or not the list shrank under it.
RECURSIVE ScanFrom(_, _, _, _)
ScanFrom(buf, i, pkey_values_new, pkeys) ==
    IF i > Len(buf)
    THEN buf
    ELSE IF ExtractPkeyValues(buf[i], pkeys) = pkey_values_new
         THEN ScanFrom(ListRemove(buf, buf[i]), i + 1, pkey_values_new, pkeys)
         ELSE ScanFrom(buf, i + 1, pkey_values_new, pkeys)

\* Mutant: the scan removes the requests of the new request's kind only.
RemoveDupPkeysOfSameKind(buf, request, pkeys) ==
    SelectSeq(buf, LAMBDA e : ~(/\ e.kind = request.kind
                                /\ ExtractPkeyValues(e, pkeys)
                                       = ExtractPkeyValues(request, pkeys)))

\* Mutant: the scan removes nothing.
RemoveDupPkeysRequestNever(buf, request, pkeys) == buf

RemoveDupPkeysRequestIfAny(buf, request, pkeys) ==
    ScanFrom(buf, 1, ExtractPkeyValues(request, pkeys), pkeys)

-----------------------------------------------------------------------------
(* _add_request_and_process, up to the threshold check *)

\* Mutant: the request is appended with no scan of the buffer.
AddRequestUnscanned(buf, request, pkeys) == Append(buf, request)

\* Mutant: a request that meets buffered pkey values is dropped, the older kept.
AddRequestOlderWins(buf, request, pkeys) ==
    IF pkeys # <<>> /\ RemoveDupPkeysRequestIfAny(buf, request, pkeys) # buf
    THEN buf
    ELSE Append(buf, request)

\* The buffer after the optional de-duplication and the append.
AddRequest(buf, request, pkeys) ==
    Append(IF pkeys # <<>> THEN RemoveDupPkeysRequestIfAny(buf, request, pkeys) ELSE buf,
           request)

\* Mutant: the request is appended before its pkey values are looked up.
BufferAppendedBeforeKeyError(buf, request) == Append(buf, request)

\* The buffer when _extract_pkey_values raised KeyError: the lookup of the new
\* request's pkey values is the first statement of the scan, ahead of every
\* removal and of the append.
BufferAfterKeyError(buf, request) == buf

\* Mutant: the threshold is met one request early.
FlushNeededEarly(buf, amount) == Len(buf) >= amount - 1

\* Mutant: the threshold is never met.
FlushNeededNever(buf, amount) == FALSE

\* Mutant: the threshold is met one request late.
FlushNeededLate(buf, amount) == Len(buf) > amount

\* _flush_if_needed's test.
FlushNeeded(buf, amount) == Len(buf) >= amount

-----------------------------------------------------------------------------
(* _flush, up to the await *)

\* Mutant: the whole buffer is sent.
SliceToSendAll(buf, amount) == buf

\* self._items_buffer[:self._flush_amount]
SliceToSend(buf, amount) == SubSeq(buf, 1, Min(amount, Len(buf)))

\* Mutant: the buffer is cut one request behind the slice sent.
SliceToKeepOneLess(buf, amount) == SubSeq(buf, Min(amount, Len(buf)) + 2, Len(buf))

\* Mutant: the flush leaves in the buffer what it sends.
SliceToKeepAll(buf, amount) == buf

\* self._items_buffer[self._flush_amount:]
SliceToKeep(buf, amount) == SubSeq(buf, Min(amount, Len(buf)) + 1, Len(buf))

CountCall(n) == Min(n + 1, MaxCalls)

\* Mutant: the unprocessed items go to the front of the buffer.
RequeueAtFront(buf, unprocessed) == unprocessed \o buf

\* Mutant: the unprocessed items go in behind the first buffered request.
RequeueBehindFirst(buf, unprocessed) ==
    IF buf = <<>> THEN unprocessed ELSE <<Head(buf)>> \o unprocessed \o Tail(buf)

\* Mutant: the unprocessed items are dropped.
RequeueNothing(buf, unprocessed) == buf

\* self._items_buffer.extend(item_list)
Requeue(buf, unprocessed) == buf \o unprocessed

\* Mutant: the slice that was sent is put back in front of the buffer.
BufferRestoredAfterRaise(buf, batch) == batch \o buf

\* The buffer when _flush raised after its await, with batch_write_item's
\* error or with the KeyError of response['UnprocessedItems']: _flush has no
\* handler, and the slice it took is not put back.
BufferAfterRaise(buf, batch) == buf

\* Mutant: __aexit__ swallows the error and goes round its loop again.
AfterRaiseDrainGoesOn(where) == IF where = "put_flush" THEN "open" ELSE "exit_sleep"

\* Where a task stands once _flush raised after its await: back in the scope,
\* with the error of its put_item or delete_item, or out of __aexit__ with the
\* error, the loop not resumed.
AfterRaise(where) == IF where = "put_flush" THEN "open" ELSE "exit_raised"

\* response['UnprocessedItems'] finds the key (no KeyError): the line is a
\* subscript, a response without the key ends _flush there.
HasUnprocessedItems(response) == response.has_key

\* unprocessed_items.get(self._table_name, []) of a response that has the key:
\* the list under the table, [] when the value is falsy (None, {}) or holds no
\* entry of the table.  A response without the key binds no item_list.
ItemList(response) ==
    CASE response.has_key /\ response.has_table -> response.items
      [] response.has_key /\ ~response.has_table -> <<>>

-----------------------------------------------------------------------------
(* The backend: batch_write_item of the client *)

\* The lists of distinct requests of a batch, in any order.
Arrangements(batch) ==
    LET n == Len(batch)
        picks == UNION {[1..k -> 1..n] : k \in 0..n}
        injective(f) == \A i, j \in DOMAIN f : i # j => f[i] # f[j]
    IN  {[i \in DOMAIN f |-> batch[f[i]]] : f \in {g \in picks : injective(g)}}

\* The ways to choose distinct positions of a batch of n requests, in an order.
Picks(n) ==
    {f \in UNION {[1..k -> 1..n] : k \in 0..n} :
        \A i, j \in DOMAIN f : i # j => f[i] # f[j]}

\* The entries of batch at the positions f, in the order of f.
Picked(batch, f) == [i \in DOMAIN f |-> batch[f[i]]]

Range(f) == {f[i] : i \in DOMAIN f}

\* What batch_write_item may answer for a batch, as _flush reads it: a
\* response with no 'UnprocessedItems'; one whose 'UnprocessedItems' is falsy
\* or has no entry of the table; one that maps the table to some of the
\* batch's requests.
Responses(batch) ==
    {[has_key |-> FALSE, has_table |-> FALSE, items |-> <<>>],
     [has_key |-> TRUE, has_table |-> FALSE, items |-> <<>>]}
        \cup {[has_key |-> TRUE, has_table |-> TRUE, items |-> u] : u \in Arrangements(batch)}

-----------------------------------------------------------------------------
(* __aexit__ *)

\* Mutant: the loop ends with one request left.
DrainMoreThanOne(buf) == Len(buf) > 1

\* Mutant: the loop flushes before it tests the buffer.
DrainAlways(buf) == TRUE

\* while self._items_buffer
DrainMore(buf) == buf # <<>>

\* Mutant: the sleep does not ask whether anything is left to send.
SleepWheneverSet(buf, sleep) == sleep # 0

\* if self._items_buffer and self._on_exit_loop_sleep
SleepNeeded(buf, sleep) == buf # <<>> /\ sleep # 0

-----------------------------------------------------------------------------
(* Initial state: __init__ *)

NoHistory(track) ==
    [track |-> track,     \* whether this run keeps the record
     rejected |-> {},     \* calls that ended in the KeyError of a missing pkey
     discarded |-> {},    \* calls whose request the scan removed
     unprocessed |-> {},  \* calls whose request the backend returned at least once
     accepted |-> {},     \* calls whose request the backend kept, and its pkey values
     failed |-> {},       \* calls whose request was in a batch whose call raised
     unread |-> {}]       \* calls whose request was in a batch answered without the key

\* The writer as __init__ leaves it.
Constructed ==
    /\ items_buffer = <<>>
    /\ flush_amount \in 1..MaxFlush
    /\ overwrite_by_pkeys \in PkeyConfigs
    /\ on_exit_loop_sleep \in {0, 1}
    /\ pc = [t \in Tasks |-> "open"]
    /\ items_to_send = [t \in Tasks |-> <<>>]
    /\ item_list = [t \in Tasks |-> <<>>]
    /\ outcome = [t \in Tasks |-> "none"]
    /\ exc_type = [t \in Tasks |-> "none"]
    /\ exit_error = [t \in Tasks |-> "none"]
    /\ backend_ok = FALSE
    /\ nputs = 0
    /\ nkeyerrors = 0
    /\ ncollisions = 0
    /\ ncalls = 0
    /\ buffer_ids = <<>>
    /\ sent_ids = [t \in Tasks |-> <<>>]

Init == Constructed /\ history = NoHistory(FALSE)

\* The same, in a run that keeps the record of the requests.
InitRecorded == Constructed /\ history = NoHistory(TRUE)

-----------------------------------------------------------------------------
(* Steps *)

\* The record follows the writer: each Record conjunct below does to the call
\* numbers what the step does to the requests.
StartFlushIds(t, ids) ==
    /\ sent_ids' = [sent_ids EXCEPT ![t] = SliceToSend(ids, flush_amount)]
    /\ buffer_ids' = SliceToKeep(ids, flush_amount)

ExitLoopIds(t, ids) ==
    IF DrainMore(ids)
    THEN StartFlushIds(t, ids)
    ELSE /\ buffer_ids' = ids
         /\ sent_ids' = [sent_ids EXCEPT ![t] = <<>>]

\* The ways to keep m of n entries in their order: the positions kept.
Kept(m, n) == {g \in [1..m -> 1..n] : \A i, j \in 1..m : i < j => g[i] < g[j]}

\* The scan and the append are followed through what AddRequest leaves of the
\* buffer and the new request: the entries kept, the new request last of
\* them when it stands last.
RecordAdd(t, request) ==
    IF ~history.track
    THEN UNCHANGED record
    ELSE IF overwrite_by_pkeys # <<>> /\ ~HasPkeys(request, overwrite_by_pkeys)
         THEN /\ history' = [history EXCEPT !.rejected = @ \cup {nputs + 1}]
              /\ UNCHANGED <<buffer_ids, sent_ids>>
         ELSE LET before == Append(items_buffer, request)
                  before_ids == Append(buffer_ids, nputs + 1)
                  after == AddRequest(items_buffer, request, overwrite_by_pkeys)
              IN  \E g \in Kept(Len(after), Len(before)) :
                      /\ Picked(before, g) = after
                      /\ (after # <<>> /\ after[Len(after)] = request)
                             => g[Len(after)] = Len(before)
                      /\ LET ids == Picked(before_ids, g)
                         IN  /\ history' = [history EXCEPT !.discarded =
                                                @ \cup (Range(before_ids) \ Range(ids))]
                             /\ IF FlushNeeded(ids, flush_amount)
                                THEN StartFlushIds(t, ids)
                                ELSE buffer_ids' = ids /\ UNCHANGED sent_ids

\* The batch of t came back with the requests at the positions f unprocessed.
HistoryAfterReturn(t, f) ==
    [history EXCEPT
        !.unprocessed = @ \cup Range(Picked(sent_ids[t], f)),
        !.accepted = @ \cup {[id |-> sent_ids[t][i],
                                 pkey_values |-> ExtractPkeyValues(items_to_send[t][i],
                                                                   overwrite_by_pkeys)] :
                                i \in (1..Len(sent_ids[t])) \ Range(f)}]

RecordPutFlushReturn(t, unprocessed) ==
    IF ~history.track
    THEN UNCHANGED record
    ELSE \E f \in Picks(Len(items_to_send[t])) :
             /\ Picked(items_to_send[t], f) = unprocessed
             /\ history' = HistoryAfterReturn(t, f)
             /\ buffer_ids' = Requeue(buffer_ids, Picked(sent_ids[t], f))
             /\ sent_ids' = [sent_ids EXCEPT ![t] = <<>>]

RecordExitFlushReturn(t, unprocessed) ==
    IF ~history.track
    THEN UNCHANGED record
    ELSE \E f \in Picks(Len(items_to_send[t])) :
             /\ Picked(items_to_send[t], f) = unprocessed
             /\ history' = HistoryAfterReturn(t, f)
             /\ LET ids == Requeue(buffer_ids, Picked(sent_ids[t], f))
                IN  IF SleepNeeded(ids, on_exit_loop_sleep)
                    THEN /\ buffer_ids' = ids
                         /\ sent_ids' = [sent_ids EXCEPT ![t] = <<>>]
                    ELSE ExitLoopIds(t, ids)

RecordRaise(t) ==
    IF ~history.track
    THEN UNCHANGED record
    ELSE /\ history' = [history EXCEPT !.failed = @ \cup Range(sent_ids[t])]
         /\ sent_ids' = [sent_ids EXCEPT ![t] = <<>>]
         /\ UNCHANGED buffer_ids

RecordKeyError(t) ==
    IF ~history.track
    THEN UNCHANGED record
    ELSE /\ history' = [history EXCEPT !.unread = @ \cup Range(sent_ids[t])]
         /\ sent_ids' = [sent_ids EXCEPT ![t] = <<>>]
         /\ UNCHANGED buffer_ids

RecordExitLoop(t) ==
    IF ~history.track
    THEN UNCHANGED record
    ELSE ExitLoopIds(t, buffer_ids) /\ UNCHANGED history

\* _flush from its first line to the await of batch_write_item.
StartFlush(t, buf, where) ==
    /\ items_to_send' = [items_to_send EXCEPT ![t] = SliceToSend(buf, flush_amount)]
    /\ items_buffer' = SliceToKeep(buf, flush_amount)
    /\ pc' = [pc EXCEPT ![t] = where]
    /\ ncalls' = CountCall(ncalls)

\* The head of __aexit__'s loop: another flush, or the end of __aexit__.
ExitLoop(t, buf) ==
    IF DrainMore(buf)
    THEN StartFlush(t, buf, "exit_flush")
    ELSE /\ items_buffer' = buf
         /\ items_to_send' = [items_to_send EXCEPT ![t] = <<>>]
         /\ pc' = [pc EXCEPT ![t] = "closed"]
         /\ UNCHANGED ncalls

\* A request of equal pkey values is in the buffer when the request arrives.
Collides(buf, request, pkeys) ==
    /\ pkeys # <<>>
    /\ HasPkeys(request, pkeys)
    /\ \E i \in 1..Len(buf) :
           ExtractPkeyValues(buf[i], pkeys) = ExtractPkeyValues(request, pkeys)

\* _add_request_and_process: to its return, to the KeyError of
\* _extract_pkey_values, or to the await of batch_write_item.
AddRequestAndProcess(t, request) ==
    /\ pc[t] = "open"
    /\ nputs' = nputs + 1
    /\ item_list' = [item_list EXCEPT ![t] = <<>>]
    /\ UNCHANGED <<config, exc_type, exit_error, backend_ok>>
    /\ RecordAdd(t, request)
    /\ IF overwrite_by_pkeys # <<>> /\ ~HasPkeys(request, overwrite_by_pkeys)
       THEN /\ outcome' = [outcome EXCEPT ![t] = "KeyError"]
            /\ nkeyerrors' = nkeyerrors + 1
            /\ items_buffer' = BufferAfterKeyError(items_buffer, request)
            /\ UNCHANGED <<items_to_send, pc, ncollisions, ncalls>>
       ELSE LET buf == AddRequest(items_buffer, request, overwrite_by_pkeys)
            IN  /\ UNCHANGED nkeyerrors
                /\ ncollisions' = ncollisions +
                       (IF Collides(items_buffer, request, overwrite_by_pkeys) THEN 1 ELSE 0)
                /\ IF FlushNeeded(buf, flush_amount)
                   THEN /\ StartFlush(t, buf, "put_flush")
                        /\ outcome' = [outcome EXCEPT ![t] = "pending"]
                   ELSE /\ items_buffer' = buf
                        /\ outcome' = [outcome EXCEPT ![t] = "ok"]
                        /\ UNCHANGED <<items_to_send, pc, ncalls>>

\* put_item, while fewer than limit calls were made
PutItemUpTo(t, limit) ==
    /\ nputs < limit
    /\ \E Item \in Items : AddRequestAndProcess(t, PutRequest(Item))

\* delete_item, while fewer than limit calls were made
DeleteItemUpTo(t, limit) ==
    /\ nputs < limit
    /\ \E Key \in Keys : AddRequestAndProcess(t, DeleteRequest(Key))

PutItem(t) == PutItemUpTo(t, MaxOps)

DeleteItem(t) == DeleteItemUpTo(t, MaxOps)

\* batch_write_item returns to a flush that put_item or delete_item started:
\* the rest of _flush, and the call returns.
PutFlushReturns(t) ==
    /\ pc[t] = "put_flush"
    /\ \E response \in Responses(items_to_send[t]) :
           /\ HasUnprocessedItems(response)
           /\ backend_ok => ItemList(response) = <<>>
           /\ item_list' = [item_list EXCEPT ![t] = ItemList(response)]
           /\ items_buffer' = Requeue(items_buffer, ItemList(response))
           /\ RecordPutFlushReturn(t, ItemList(response))
    /\ items_to_send' = [items_to_send EXCEPT ![t] = <<>>]
    /\ pc' = [pc EXCEPT ![t] = "open"]
    /\ outcome' = [outcome EXCEPT ![t] = "ok"]
    /\ UNCHANGED <<config, exc_type, exit_error, backend_ok,
                   nputs, nkeyerrors, ncollisions, ncalls>>

\* batch_write_item returns to a flush of __aexit__: the rest of _flush, then
\* the sleep, the next flush or the end of __aexit__.
ExitFlushReturns(t) ==
    /\ pc[t] = "exit_flush"
    /\ \E response \in Responses(items_to_send[t]) :
           /\ HasUnprocessedItems(response)
           /\ backend_ok => ItemList(response) = <<>>
           /\ item_list' = [item_list EXCEPT ![t] = ItemList(response)]
           /\ LET buf == Requeue(items_buffer, ItemList(response))
              IN  IF SleepNeeded(buf, on_exit_loop_sleep)
                  THEN /\ items_buffer' = buf
                       /\ items_to_send' = [items_to_send EXCEPT ![t] = <<>>]
                       /\ pc' = [pc EXCEPT ![t] = "exit_sleep"]
                       /\ UNCHANGED ncalls
                  ELSE ExitLoop(t, buf)
           /\ RecordExitFlushReturn(t, ItemList(response))
    /\ UNCHANGED <<config, outcome, exc_type, exit_error, backend_ok,
                   nputs, nkeyerrors, ncollisions>>

\* batch_write_item raises: the error leaves _flush and the call that made it.
BatchWriteItemRaises(t) ==
    /\ pc[t] \in {"put_flush", "exit_flush"}
    /\ ~backend_ok
    /\ items_buffer' = BufferAfterRaise(items_buffer, items_to_send[t])
    /\ items_to_send' = [items_to_send EXCEPT ![t] = <<>>]
    /\ item_list' = [item_list EXCEPT ![t] = <<>>]
    /\ pc' = [pc EXCEPT ![t] = AfterRaise(pc[t])]
    /\ outcome' = [outcome EXCEPT ![t] =
                       IF pc[t] = "put_flush" THEN "BackendError" ELSE outcome[t]]
    /\ exit_error' = [exit_error EXCEPT ![t] =
                          IF pc[t] = "exit_flush" THEN "BackendError" ELSE exit_error[t]]
    /\ RecordRaise(t)
    /\ UNCHANGED <<config, exc_type, backend_ok, nputs, nkeyerrors, ncollisions, ncalls>>

\* batch_write_item returns a response with no 'UnprocessedItems':
\* response['UnprocessedItems'] raises KeyError, after the slice left the
\* buffer and before anything is requeued, and the error leaves _flush and
\* the call that made it.
UnprocessedItemsKeyError(t) ==
    /\ pc[t] \in {"put_flush", "exit_flush"}
    /\ ~backend_ok
    /\ \E response \in Responses(items_to_send[t]) : ~HasUnprocessedItems(response)
    /\ items_buffer' = BufferAfterRaise(items_buffer, items_to_send[t])
    /\ items_to_send' = [items_to_send EXCEPT ![t] = <<>>]
    /\ item_list' = [item_list EXCEPT ![t] = <<>>]
    /\ pc' = [pc EXCEPT ![t] = AfterRaise(pc[t])]
    /\ outcome' = [outcome EXCEPT ![t] =
                       IF pc[t] = "put_flush" THEN "KeyError" ELSE outcome[t]]
    /\ exit_error' = [exit_error EXCEPT ![t] =
                          IF pc[t] = "exit_flush" THEN "KeyError" ELSE exit_error[t]]
    /\ RecordKeyError(t)
    /\ UNCHANGED <<config, exc_type, backend_ok, nputs, nkeyerrors, ncollisions, ncalls>>

\* __aexit__, entered on a normal exit of the scope or on an error in it.
AExit(t) ==
    /\ pc[t] = "open"
    /\ \E exc \in {"None", "Error"} : exc_type' = [exc_type EXCEPT ![t] = exc]
    /\ item_list' = [item_list EXCEPT ![t] = <<>>]
    /\ ExitLoop(t, items_buffer)
    /\ RecordExitLoop(t)
    /\ UNCHANGED <<config, outcome, exit_error, backend_ok, nputs, nkeyerrors, ncollisions>>

\* asyncio.sleep returns: back to the head of the loop.
SleepReturns(t) ==
    /\ pc[t] = "exit_sleep"
    /\ item_list' = [item_list EXCEPT ![t] = <<>>]
    /\ ExitLoop(t, items_buffer)
    /\ RecordExitLoop(t)
    /\ UNCHANGED <<config, outcome, exc_type, exit_error, backend_ok,
                   nputs, nkeyerrors, ncollisions>>

\* From here on the backend accepts every request, answers with
\* 'UnprocessedItems' and does not fail.
BackendRecovers ==
    /\ ~backend_ok
    /\ backend_ok' = TRUE
    /\ UNCHANGED <<items_buffer, config, pc, items_to_send, item_list, outcome,
                   exc_type, exit_error, nputs, nkeyerrors, ncollisions, ncalls, record>>

Step(t) ==
    \/ PutItem(t)
    \/ DeleteItem(t)
    \/ PutFlushReturns(t)
    \/ ExitFlushReturns(t)
    \/ BatchWriteItemRaises(t)
    \/ UnprocessedItemsKeyError(t)
    \/ AExit(t)
    \/ SleepReturns(t)

\* One caller: the flow the writer is made for.
Next == Step(Caller) \/ BackendRecovers

Spec == Init /\ [][Next]_vars

\* The caller's flow under the scheduling of the event loop: a coroutine whose
\* awaited batch_write_item or sleep has ended is resumed in __aexit__.
SpecLive ==
    /\ Spec
    /\ WF_vars(ExitFlushReturns(Caller))
    /\ WF_vars(SleepReturns(Caller))

\* One caller, the record of the requests kept.
SpecRecorded == InitRecorded /\ [][Next]_vars

\* A backend that returns every batch whole as unprocessed, in some order,
\* under 'UnprocessedItems'.
PutFlushReturnsAll(t) ==
    /\ PutFlushReturns(t)
    /\ Len(item_list'[t]) = Len(items_to_send[t])

ExitFlushReturnsAll(t) ==
    /\ ExitFlushReturns(t)
    /\ Len(item_list'[t]) = Len(items_to_send[t])

NextRejecting ==
    \/ PutItem(Caller)
    \/ DeleteItem(Caller)
    \/ PutFlushReturnsAll(Caller)
    \/ ExitFlushReturnsAll(Caller)
    \/ AExit(Caller)
    \/ SleepReturns(Caller)

\* The caller's flow against that backend, under the scheduling of the event
\* loop.
SpecRejecting ==
    /\ Init
    /\ [][NextRejecting]_vars
    /\ WF_vars(ExitFlushReturnsAll(Caller))
    /\ WF_vars(SleepReturns(Caller))

\* Two tasks share the writer with no lock: the caller, who entered the scope
\* and leaves it, and a task that puts and deletes.  Each runs from one
\* suspension point to the next, in any interleaving.  The backend does not
\* fail, and its responses have 'UnprocessedItems'.
Guest == "t2"

NextShared(limit) ==
    \/ \E t \in {Caller, Guest} :
           \/ PutItemUpTo(t, limit)
           \/ DeleteItemUpTo(t, limit)
           \/ PutFlushReturns(t)
    \/ ExitFlushReturns(Caller)
    \/ AExit(Caller)
    \/ SleepReturns(Caller)

\* The record kept, in the configurations of a small threshold, with the
\* sleep, without overwrite_by_pkeys or with one key.
InitShared ==
    /\ InitRecorded
    /\ flush_amount < MaxFlush
    /\ Len(overwrite_by_pkeys) <= 1
    /\ on_exit_loop_sleep # 0

SpecShared == InitShared /\ [][NextShared(MaxOps)]_vars

\* The same with overwrite_by_pkeys set to one key and one call more: four
\* calls are the fewest that make a scan meet two requests of its pkey values.
MaxRacingOps == MaxOps + 1

InitRacing == Init /\ overwrite_by_pkeys = <<"K">>

SpecRacing == InitRacing /\ [][NextShared(MaxRacingOps)]_vars

-----------------------------------------------------------------------------
(* Vocabulary of the properties *)

\* No public operation of any task is under way.
BetweenOperations == \A t \in Tasks : pc[t] \in {"open", "closed", "exit_raised"}

PkeysOf(request) == ExtractPkeyValues(request, overwrite_by_pkeys)

\* No two entries of buf have equal pkey values.
DistinctPkeys(buf) ==
    \A i, j \in 1..Len(buf) : i # j => PkeysOf(buf[i]) # PkeysOf(buf[j])

\* The entries of buf whose pkey values are not those of request, in order.
Others(buf, request) ==
    SelectSeq(buf, LAMBDA e : PkeysOf(e) # PkeysOf(request))

\* The buffer as _add_request_and_process left it when it went on to the
\* threshold check: the slice a flush took, then what the flush kept.
Appended(t) == items_to_send'[t] \o items_buffer'

\* batch and rest are buf cut after its first min(flush_amount, Len(buf))
\* entries, and the batch is not empty.
FrontSlice(buf, batch, rest) ==
    /\ batch \o rest = buf
    /\ Len(batch) = Min(flush_amount, Len(buf))
    /\ Len(batch) >= 1
    /\ Len(batch) <= flush_amount

\* The steps of the caller, told by what they do to pc and outcome.  The one
\* other step of Spec, BackendRecovers, changes backend_ok alone.
IsAExit == pc[Caller] = "open" /\ pc'[Caller] \in {"exit_flush", "closed"}

IsSleepReturns == pc[Caller] = "exit_sleep" /\ pc'[Caller] # "exit_sleep"

IsPutFlushReturns == pc[Caller] = "put_flush" /\ outcome'[Caller] = "ok"

IsExitFlushReturns ==
    /\ pc[Caller] = "exit_flush"
    /\ pc'[Caller] # "exit_raised"
    /\ backend_ok' = backend_ok

\* The step is a put_item or delete_item that appended its request.
Appends == nputs' = nputs + 1 /\ nkeyerrors' = nkeyerrors

-----------------------------------------------------------------------------
(* C1 *)

\* C1: with overwrite_by_pkeys set, between public operations the buffer holds
\* no two requests of equal pkey values.
C1_NoTwoEqualPkeys ==
    (overwrite_by_pkeys # <<>> /\ BetweenOperations) => DistinctPkeys(items_buffer)

\* A collision was resolved, a flush requeued, and two requests are buffered.
C1_Witness ==
    /\ overwrite_by_pkeys # <<>>
    /\ BetweenOperations
    /\ ncollisions >= 1
    /\ ncalls >= 1
    /\ Len(items_buffer) >= 2

-----------------------------------------------------------------------------
(* C2 *)

\* C2: with overwrite_by_pkeys set, a put_item or delete_item whose pkey
\* values equal those of a buffered request leaves, after its append, one
\* entry of these pkey values, the new request, at the end; the other entries
\* stay as they were; the kinds of the two requests play no part.
C2_NewerReplacesOlder ==
    [][\A request \in Requests :
          (/\ pc[Caller] = "open"
           /\ Collides(items_buffer, request, overwrite_by_pkeys)
           /\ AddRequestAndProcess(Caller, request))
          => /\ Len(Appended(Caller)) >= 1
             /\ Appended(Caller)[Len(Appended(Caller))] = request
             /\ SubSeq(Appended(Caller), 1, Len(Appended(Caller)) - 1)
                    = Others(items_buffer, request)
             /\ Cardinality({i \in 1..Len(Appended(Caller)) :
                    PkeysOf(Appended(Caller)[i]) = PkeysOf(request)}) = 1]_vars

\* After two calls, the second a delete_item that met the first's pkey values,
\* the buffer holds the DeleteRequest alone.
C2_Witness ==
    /\ overwrite_by_pkeys = <<"K">>
    /\ nputs = 2
    /\ nkeyerrors = 0
    /\ ncollisions = 1
    /\ ncalls = 0
    /\ Len(items_buffer) = 1
    /\ items_buffer[1].kind = "DeleteRequest"

-----------------------------------------------------------------------------
(* C3 *)

\* The caller is in the scope and has not begun __aexit__.
InScope == pc[Caller] \in {"open", "put_flush"}

\* C3 as stated: after at most flush_amount - 1 calls no batch_write_item
\* call was made and the buffer holds one request per call, less the
\* collisions.
C3_Original ==
    (InScope /\ nputs <= flush_amount - 1)
        => /\ ncalls = 0
           /\ Len(items_buffer) = nputs - ncollisions

\* C3, amended: after at most flush_amount - 1 calls no batch_write_item call
\* was made, none is awaited, and the buffer holds one request per call that
\* did not end in a KeyError, less the collisions; without overwrite_by_pkeys
\* it holds one request per call.
C3_BelowThreshold ==
    (InScope /\ nputs <= flush_amount - 1)
        => /\ ncalls = 0
           /\ pc[Caller] = "open"
           /\ Len(items_buffer) = nputs - nkeyerrors - ncollisions
           /\ overwrite_by_pkeys = <<>> => Len(items_buffer) = nputs

\* Two calls under a threshold of three, the second colliding with the first.
C3_Witness ==
    /\ pc[Caller] = "open"
    /\ flush_amount = 3
    /\ nputs = 2
    /\ nkeyerrors = 0
    /\ ncollisions = 1
    /\ Len(items_buffer) = 1

-----------------------------------------------------------------------------
(* C4 *)

\* C4: every batch handed to batch_write_item is the first
\* min(flush_amount, length) requests of the buffer as it stood when _flush
\* sliced it, between 1 and flush_amount of them, and the buffer keeps the
\* rest: in a flush of put_item or delete_item the buffer just appended to,
\* in __aexit__ the buffer at the head of the loop.
C4_BatchIsFrontSlice ==
    [][/\ \A request \in Requests :
              (/\ pc[Caller] = "open"
               /\ pc'[Caller] = "put_flush"
               /\ AddRequestAndProcess(Caller, request))
              => /\ FrontSlice(Appended(Caller), items_to_send'[Caller], items_buffer')
                 /\ Appended(Caller)[Len(Appended(Caller))] = request
                 /\ SubSeq(Appended(Caller), 1, Len(Appended(Caller)) - 1)
                        = (IF overwrite_by_pkeys = <<>>
                           THEN items_buffer
                           ELSE Others(items_buffer, request))
       /\ ((IsAExit \/ IsSleepReturns) /\ pc'[Caller] = "exit_flush")
              => FrontSlice(items_buffer, items_to_send'[Caller], items_buffer')
       /\ (IsExitFlushReturns /\ pc'[Caller] = "exit_flush")
              => FrontSlice(items_buffer \o item_list'[Caller],
                            items_to_send'[Caller], items_buffer')
       /\ (pc'[Caller] \in {"put_flush", "exit_flush"})
              => /\ Len(items_to_send'[Caller]) \in 1..flush_amount
                 /\ Len(items_to_send'[Caller]) < flush_amount => items_buffer' = <<>>
      ]_vars

\* A batch of flush_amount requests is with the backend and the buffer keeps
\* a request that was behind it.
C4_Witness ==
    /\ pc[Caller] = "put_flush"
    /\ flush_amount = 2
    /\ Len(items_to_send[Caller]) = 2
    /\ Len(items_buffer) = 1

-----------------------------------------------------------------------------
(* C5 *)

\* Task t's batch_write_item call is awaited.
InFlight(t) == pc[t] \in {"put_flush", "exit_flush"}

\* The step is the return of task t's call: t leaves its await, or its
\* __aexit__ goes from one flush to the next in the step (no task in
\* __aexit__ makes a put_item or delete_item call).
Returned(t) ==
    /\ InFlight(t)
    /\ \/ pc'[t] # pc[t]
       \/ /\ pc[t] = "exit_flush"
          /\ nputs' = nputs
          /\ \A u \in Tasks \ {t} : pc'[u] = pc[u]

\* The buffer as the requeue of t's flush left it: in __aexit__ the next
\* flush slices it in the same step.
RequeuedBy(t) ==
    IF pc[t] = "exit_flush" /\ pc'[t] = "exit_flush"
    THEN items_to_send'[t] \o items_buffer'
    ELSE items_buffer'

\* b is a, extended at its end.
IsPrefix(a, b) == Len(a) <= Len(b) /\ SubSeq(b, 1, Len(a)) = a

\* The step is a put_item or delete_item that met buffered requests of its
\* pkey values.
Collided == nputs' = nputs + 1 /\ ncollisions' # ncollisions

\* The step begins a flush of a task other than t: a slice leaves the buffer.
OtherFlushBegins(t) ==
    \E u \in Tasks \ {t} : InFlight(u)' /\ (~InFlight(u) \/ Returned(u))

\* C5 as stated: when a call returns, the buffer is the requests that were
\* behind its batch, then the requests appended during the call, then the
\* returned requests.  Then the buffer only grows at its end during a call:
\* a return may come after any step.
C5_Original ==
    [][\A t \in Tasks :
          /\ Returned(t) => RequeuedBy(t) = items_buffer \o item_list'[t]
          /\ (InFlight(t) /\ ~Returned(t)) => IsPrefix(items_buffer, items_buffer')
      ]_vars

\* C5, amended: when a task's batch_write_item call returns, the buffer as it
\* stands at that moment is extended at its end by the unprocessed requests,
\* in the order returned (in __aexit__ the next flush slices that buffer).
\* During the call the buffer is extended at its end, by one request per
\* put_item or delete_item of another task and by the list another task's
\* call returned, and loses requests in two ways only: to the scan of a
\* put_item or delete_item of equal pkey values, and to the slice of a flush
\* another task begins.
C5_UnprocessedAtEnd ==
    [][\A t \in Tasks :
          /\ Returned(t) => RequeuedBy(t) = items_buffer \o item_list'[t]
          /\ (InFlight(t) /\ ~Returned(t) /\ ~Collided /\ ~OtherFlushBegins(t))
                 => /\ IsPrefix(items_buffer, items_buffer')
                    /\ Appends => Len(items_buffer') = Len(items_buffer) + 1
                    /\ \A u \in Tasks \ {t} :
                           Returned(u) => items_buffer' = items_buffer \o item_list'[u]
      ]_vars

\* Under a threshold of two the caller's flush of the first two requests was
\* with the backend when the other task put the third; the flush has
\* returned both requests, which stand behind the third in the order returned.
C5_Witness ==
    /\ flush_amount = 2
    /\ nputs = 3
    /\ nkeyerrors = 0
    /\ ncollisions = 0
    /\ ncalls = 1
    /\ \A t \in Tasks : pc[t] = "open"
    /\ outcome[Guest] = "ok"
    /\ Len(item_list[Caller]) = 2
    /\ Len(items_buffer) = 3
    /\ SubSeq(items_buffer, 2, 3) = item_list[Caller]

-----------------------------------------------------------------------------
(* C6 *)

\* C6: when __aexit__ has returned, the buffer is empty, whatever exc_type it
\* was given.
C6_EmptyAfterClose ==
    pc[Caller] = "closed" => items_buffer = <<>>

\* __aexit__, entered on an error with two requests buffered, has returned
\* after two flushes.
C6_Witness ==
    /\ pc[Caller] = "closed"
    /\ exc_type[Caller] = "Error"
    /\ flush_amount = 3
    /\ nputs = 2
    /\ nkeyerrors = 0
    /\ ncollisions = 0
    /\ ncalls = 2

-----------------------------------------------------------------------------
(* C7 *)

\* C7: once the backend accepts everything and does not fail, an __aexit__
\* that is under way returns.
C7_DrainTerminates ==
    (backend_ok /\ pc[Caller] \in {"exit_flush", "exit_sleep"})
        ~> (pc[Caller] = "closed")

\* __aexit__ slept on a requeued request, the backend recovered, and
\* __aexit__ has returned.
C7_Witness ==
    /\ pc[Caller] = "closed"
    /\ backend_ok
    /\ on_exit_loop_sleep # 0
    /\ flush_amount = 3
    /\ nputs = 1
    /\ ncalls = 2

-----------------------------------------------------------------------------
(* C8 *)

\* C8: __aexit__ entered on an empty buffer returns at once: no
\* batch_write_item call and no sleep; and a returned __aexit__ makes none.
C8_EmptyCloseIsFree ==
    [][/\ (IsAExit /\ items_buffer = <<>>)
              => /\ pc'[Caller] = "closed"
                 /\ items_to_send'[Caller] = <<>>
                 /\ ncalls' = ncalls
       /\ pc[Caller] = "closed"
              => /\ pc'[Caller] = "closed"
                 /\ items_to_send'[Caller] = <<>>
                 /\ ncalls' = ncalls
      ]_vars

\* The one request put was flushed and accepted; __aexit__ found the buffer
\* empty and returned, the call count still one.
C8_Witness ==
    /\ pc[Caller] = "closed"
    /\ flush_amount = 1
    /\ nputs = 1
    /\ nkeyerrors = 0
    /\ ncalls = 1

-----------------------------------------------------------------------------
(* C9 *)

\* C9: when batch_write_item raises in a flush of put_item or delete_item, the
\* call ends with that error, the buffer stays what the flush kept (the batch
\* is not put back, the requests behind it are untouched), and no
\* batch_write_item call is made for it.
C9_PutFlushFailure ==
    [][(pc[Caller] = "put_flush" /\ BatchWriteItemRaises(Caller))
          => /\ pc'[Caller] = "open"
             /\ outcome'[Caller] = "BackendError"
             /\ items_buffer' = items_buffer
             /\ items_to_send'[Caller] = <<>>
             /\ ncalls' = ncalls
      ]_vars

\* put_item ended with the backend's error; a request that was behind the
\* batch is still buffered.
C9_Witness ==
    /\ pc[Caller] = "open"
    /\ outcome[Caller] = "BackendError"
    /\ Len(items_buffer) = 1
    /\ flush_amount = 1
    /\ nputs = 2

-----------------------------------------------------------------------------
(* C10 *)

\* C10: when batch_write_item raises in a flush of __aexit__, __aexit__ ends
\* with that error: the buffer stays what the flush kept, and from then on
\* __aexit__ makes no batch_write_item call and the buffer does not change.
C10_DrainFailure ==
    [][/\ (pc[Caller] = "exit_flush" /\ BatchWriteItemRaises(Caller))
              => /\ pc'[Caller] = "exit_raised"
                 /\ exit_error'[Caller] = "BackendError"
                 /\ items_buffer' = items_buffer
                 /\ items_to_send'[Caller] = <<>>
                 /\ ncalls' = ncalls
       /\ pc[Caller] = "exit_raised"
              => /\ pc'[Caller] = "exit_raised"
                 /\ exit_error'[Caller] = exit_error[Caller]
                 /\ items_buffer' = items_buffer
                 /\ items_to_send'[Caller] = <<>>
                 /\ ncalls' = ncalls
      ]_vars

\* __aexit__ ended with the backend's error, a request still in the buffer.
C10_Witness ==
    /\ pc[Caller] = "exit_raised"
    /\ exit_error[Caller] = "BackendError"
    /\ items_buffer # <<>>

-----------------------------------------------------------------------------
(* C11 *)

\* The calls of ids whose request no batch_write_item call has returned.
NeverReturned(ids, returned) == SelectSeq(ids, LAMBDA id : id \notin returned)

Increasing(ids) == \A i, j \in 1..Len(ids) : i < j => ids[i] < ids[j]

\* The calls whose request was handed to batch_write_item at least once.
EverSent ==
    {a.id : a \in history.accepted} \cup history.unprocessed \cup history.failed
        \cup history.unread \cup Range(sent_ids[Caller])

\* The step hands a batch to batch_write_item.
IssuesBatch ==
    /\ pc'[Caller] \in {"put_flush", "exit_flush"}
    /\ pc[Caller] # pc'[Caller] \/ IsExitFlushReturns

\* C11: requests leave in the order of their calls.  Among the requests no
\* call has returned as unprocessed, the batch with the backend and the buffer
\* behind it stand in call order, and a batch holds no such request of an
\* earlier call than a request handed over before: of two requests never
\* returned, the earlier is sent in an earlier batch, or earlier in the same
\* batch.  The returned requests alone change place: when batch_write_item
\* returns they go behind every buffered request, in the order returned.
C11_SentInCallOrder ==
    /\ [](Increasing(NeverReturned(sent_ids[Caller] \o buffer_ids, history.unprocessed)))
    /\ [][/\ IssuesBatch
                 => \A id \in Range(NeverReturned(sent_ids'[Caller], history'.unprocessed)) :
                        \A earlier \in EverSent : earlier < id
          /\ (IsPutFlushReturns \/ IsExitFlushReturns)
                 => \E f \in Picks(Len(sent_ids[Caller])) :
                        /\ Range(Picked(sent_ids[Caller], f)) \subseteq history'.unprocessed
                        /\ (IF pc'[Caller] = "exit_flush" THEN sent_ids'[Caller] ELSE <<>>)
                               \o buffer_ids' = buffer_ids \o Picked(sent_ids[Caller], f)
         ]_vars

\* Under a threshold of one the request of the first call came back twice:
\* the second call's request is with the backend ahead of it, the third
\* call's request behind it.
C11_Witness ==
    /\ history.track
    /\ flush_amount = 1
    /\ pc[Caller] = "put_flush"
    /\ sent_ids[Caller] = <<2>>
    /\ buffer_ids = <<1, 3>>
    /\ history.unprocessed = {1}

-----------------------------------------------------------------------------
(* C12 *)

\* C12 as stated: the buffer never holds more than flush_amount + 1 requests.
C12_Original == Len(items_buffer) <= flush_amount + 1

\* C12, amended: as long as batch_write_item has returned no request as
\* unprocessed, the buffer never holds more than flush_amount + 1 requests.
C12_BoundedUntilRequeue ==
    history.unprocessed = {} => Len(items_buffer) <= flush_amount + 1

\* Three calls under a threshold of two: the second flushed, the backend
\* kept both requests, and the third request is buffered.
C12_Witness ==
    /\ history.track
    /\ history.unprocessed = {}
    /\ pc[Caller] = "open"
    /\ flush_amount = 2
    /\ nputs = 3
    /\ ncalls = 1
    /\ Cardinality(history.accepted) = 2
    /\ Len(items_buffer) = 1

-----------------------------------------------------------------------------
(* C13 *)

\* C13: with overwrite_by_pkeys set, a put_item or delete_item whose Item or
\* Key lacks one of the configured keys ends in KeyError with the buffer as it
\* was (nothing removed, nothing appended), no flush started and no
\* batch_write_item call made.
C13_KeyErrorFailsFast ==
    [][\A request \in Requests :
          (/\ pc[Caller] = "open"
           /\ nputs' = nputs + 1
           /\ overwrite_by_pkeys # <<>>
           /\ ~HasPkeys(request, overwrite_by_pkeys)
           /\ AddRequestAndProcess(Caller, request))
          => /\ outcome'[Caller] = "KeyError"
             /\ items_buffer' = items_buffer
             /\ items_to_send' = items_to_send
             /\ pc' = pc
             /\ ncalls' = ncalls]_vars

\* The second call ended in KeyError with one request buffered under a
\* threshold of two: an append would have started a flush.
C13_Witness ==
    /\ pc[Caller] = "open"
    /\ outcome[Caller] = "KeyError"
    /\ flush_amount = 2
    /\ nputs = 2
    /\ nkeyerrors = 1
    /\ ncalls = 0
    /\ Len(items_buffer) = 1

-----------------------------------------------------------------------------
(* C14 *)

\* C14: in __aexit__, when a flush has returned, the sleep follows if and only
\* if the buffer (with the requeued requests) is not empty and
\* on_exit_loop_sleep is not 0; a sleep begins nowhere else, so none follows a
\* flush of put_item or delete_item; the sleep is followed by the next
\* batch_write_item call, and two calls of __aexit__ follow each other with
\* no sleep between them only when on_exit_loop_sleep is 0.
C14_SleepBetweenDrainFlushes ==
    [][/\ IsExitFlushReturns
              => (pc'[Caller] = "exit_sleep"
                     <=> (/\ items_buffer \o item_list'[Caller] # <<>>
                          /\ on_exit_loop_sleep # 0))
       /\ (pc'[Caller] = "exit_sleep" /\ pc[Caller] # "exit_sleep")
              => IsExitFlushReturns
       /\ IsSleepReturns
              => /\ pc'[Caller] = "exit_flush"
                 /\ items_to_send'[Caller] # <<>>
       /\ (IsExitFlushReturns /\ pc'[Caller] = "exit_flush")
              => on_exit_loop_sleep = 0
       /\ pc[Caller] = "put_flush"
              => pc'[Caller] \in {"put_flush", "open"}
      ]_vars

\* __aexit__ sleeps: its first flush came back with a request unprocessed.
C14_Witness ==
    /\ pc[Caller] = "exit_sleep"
    /\ on_exit_loop_sleep # 0
    /\ item_list[Caller] # <<>>
    /\ items_buffer # <<>>
    /\ ncalls = 1

-----------------------------------------------------------------------------
(* C16 *)

\* The buffer as that step left it at the threshold check: the slice its
\* flush took, if it flushed, then what is buffered.
AppendedBuffer ==
    LET flushed == {t \in Tasks : pc[t] = "open" /\ pc'[t] = "put_flush"}
    IN  IF flushed = {}
        THEN items_buffer'
        ELSE items_to_send'[CHOOSE t \in flushed : TRUE] \o items_buffer'

\* C16: a put_item or delete_item removes at most one buffered request,
\* whatever buffer it meets.
C16_Original ==
    [][(overwrite_by_pkeys # <<>> /\ Appends)
          => Len(items_buffer) + 1 - Len(AppendedBuffer) <= 1]_vars

\* The caller's flush of two requests came back whole while the other task
\* put a request of the pkey values of one of them; the other task's next
\* call, of these pkey values again, removed two requests: of four requests,
\* none kept by the backend, the writer holds two.
C16_Witness ==
    /\ flush_amount = 2
    /\ nputs = 4
    /\ nkeyerrors = 0
    /\ ncollisions = 1
    /\ pc[Caller] = "open"
    /\ Len(item_list[Caller]) = 2
    /\ pc[Guest] = "put_flush"
    /\ Len(items_to_send[Guest]) = 2
    /\ items_buffer = <<>>

-----------------------------------------------------------------------------
(* C17 *)

\* The step is task t's, at the return of its batch_write_item call.
Returns(t) ==
    /\ pc[t] \in {"put_flush", "exit_flush"}
    /\ nputs' = nputs
    /\ \A u \in Tasks \ {t} : pc'[u] = pc[u]

\* The buffer as the step's requeue left it: in __aexit__ the next flush
\* slices it in the same step.
Requeued ==
    IF Returns(Caller) /\ pc[Caller] = "exit_flush" /\ pc'[Caller] = "exit_flush"
    THEN items_to_send'[Caller] \o items_buffer'
    ELSE items_buffer'

\* C17: with two tasks on one writer, the requeue of unprocessed requests
\* looks at no pkey values.  A buffer of pairwise different pkey values gets
\* two entries of equal pkey values in no step of put_item or delete_item,
\* but when a batch_write_item call returns: the returned requests are
\* appended as they are behind the requests buffered during the call, an
\* older request behind a newer one of its pkey values, and both stay.
C17_RequeueRace ==
    [][(DistinctPkeys(items_buffer) /\ ~DistinctPkeys(Requeued))
          => \E t \in Tasks :
                 /\ Returns(t)
                 /\ item_list'[t] # <<>>
                 /\ Requeued = items_buffer \o item_list'[t]
      ]_vars

\* A flush of two requests was with the backend when the other task put a
\* request of the first one's pkey values; the flush has returned the first
\* request, which stands in the buffer behind the newer one.
C17_Witness ==
    /\ flush_amount = 2
    /\ nputs = 3
    /\ \A t \in Tasks : pc[t] = "open"
    /\ \E t \in Tasks :
           /\ Len(item_list[t]) = 1
           /\ Len(items_buffer) = 2
           /\ items_buffer[2] = item_list[t][1]
           /\ items_buffer[1] # items_buffer[2]
           /\ PkeysOf(items_buffer[1]) = PkeysOf(items_buffer[2])

-----------------------------------------------------------------------------
(* C18 *)

\* C18: a put_item or delete_item that appended its request makes a
\* batch_write_item call if and only if the buffer just appended to holds at
\* least flush_amount requests, and one call at most: when that call returns
\* or raises, put_item or delete_item returns with no further call, also when
\* the requeued requests leave flush_amount requests or more in the buffer.
C18_OneCallPerPut ==
    [][/\ (/\ pc[Caller] = "open"
            /\ nputs' = nputs + 1
            /\ outcome'[Caller] # "KeyError")
              => /\ pc'[Caller] = "put_flush" <=> Len(Appended(Caller)) >= flush_amount
                 /\ pc'[Caller] = "put_flush" => items_to_send'[Caller] # <<>>
                 /\ pc'[Caller] # "put_flush"
                        => /\ pc'[Caller] = "open"
                           /\ items_to_send'[Caller] = <<>>
                           /\ ncalls' = ncalls
       /\ pc[Caller] = "put_flush"
              => /\ pc'[Caller] \in {"put_flush", "open"}
                 /\ pc'[Caller] = "open" => items_to_send'[Caller] = <<>>
                 /\ ncalls' = ncalls
      ]_vars

\* put_item has returned from its one flush with flush_amount requests or
\* more in the buffer, requeued requests among them.
C18_Witness ==
    /\ pc[Caller] = "open"
    /\ outcome[Caller] = "ok"
    /\ item_list[Caller] # <<>>
    /\ Len(items_buffer) >= flush_amount
    /\ flush_amount = 2

-----------------------------------------------------------------------------
(* C15 *)

\* __aexit__ is in its loop.
Draining == pc[Caller] \in {"exit_flush", "exit_sleep"}

\* The requests the writer holds: the batch with the backend, then the buffer.
Held == items_to_send[Caller] \o items_buffer

\* C15: against a backend that returns every batch whole as unprocessed, an
\* __aexit__ that found the buffer non-empty never returns: it stays in its
\* loop, holding the same number of requests, at least one, after every
\* step; a step of the loop can always be taken, a flush that returned is
\* followed by the next batch_write_item call or the sleep before it, and the
\* sleep by the next call.
C15_DrainNeverEnds ==
    /\ [](Draining => /\ Held # <<>>
                      /\ ENABLED (ExitFlushReturnsAll(Caller) \/ SleepReturns(Caller)))
    /\ [][Draining => /\ Draining'
                      /\ Len(Held') = Len(Held)
                      /\ pc'[Caller] = "exit_flush" => items_to_send'[Caller] # <<>>
                      /\ pc[Caller] = "exit_sleep" => pc'[Caller] = "exit_flush"]_vars

\* __aexit__ is at its second batch_write_item call for the one request put,
\* the first call having returned it.
C15_Witness ==
    /\ pc[Caller] = "exit_flush"
    /\ nputs = 1
    /\ ncalls = 2
    /\ item_list[Caller] # <<>>
    /\ Len(Held) = 1

-----------------------------------------------------------------------------
(* C19 *)

\* Where the requests are, by the numbers of their calls: buffered, in the
\* batch of the caller or of the other task with the backend, kept by the
\* backend, removed by the scan.
Whereabouts ==
    Range(buffer_ids) \cup Range(sent_ids[Caller]) \cup Range(sent_ids[Guest])
        \cup {a.id : a \in history.accepted} \cup history.discarded

\* The number of entries these places hold.
Entries ==
    Len(buffer_ids) + Len(sent_ids[Caller]) + Len(sent_ids[Guest])
        + Cardinality(history.accepted) + Cardinality(history.discarded)

\* The request of each call of calls, and of no other call, is in one place
\* and one only, once: the places hold these calls and as many entries.
ExactlyOnce(calls) ==
    /\ Whereabouts = calls
    /\ Entries = Cardinality(calls)

\* C19 as stated: the request of every put_item or delete_item call is in
\* exactly one place.
C19_Original == ExactlyOnce(1..nputs)

\* C19, amended: the request of every put_item or delete_item call that did
\* not end in KeyError is in exactly one place: the buffer, the batch of one
\* task with the backend, kept by the backend, or removed by the scan; the
\* request of a call that ended in KeyError is in none.
C19_Conservation == ExactlyOnce((1..nputs) \ history.rejected)

\* The caller's batch is with the backend, the other task's request is
\* buffered, and the backend has kept a request.
C19_Witness ==
    /\ history.track
    /\ pc[Caller] \in {"put_flush", "exit_flush"}
    /\ sent_ids[Caller] # <<>>
    /\ buffer_ids # <<>>
    /\ outcome[Guest] = "ok"
    /\ history.accepted # {}
    /\ nputs = 3

-----------------------------------------------------------------------------
(* C20 *)

\* C20: with overwrite_by_pkeys set and one caller, whenever the backend keeps
\* a request, every request of the same pkey values it has kept came from an
\* earlier call: a request that was returned and sent again is never kept
\* after a request of a later call for the same pkey values.
C20_OlderNeverOvertakes ==
    [][overwrite_by_pkeys # <<>>
          => \A new \in history'.accepted \ history.accepted :
                 \A a \in history'.accepted :
                     (a # new /\ a.pkey_values = new.pkey_values)
                         => a.id < new.id]_vars

\* The first call's request came back unprocessed and was buffered again; the
\* second call's request, of the same pkey values, removed it and was kept by
\* the backend.
C20_Witness ==
    /\ history.track
    /\ overwrite_by_pkeys # <<>>
    /\ history.unprocessed = {1}
    /\ history.discarded = {1}
    /\ \E a \in history.accepted : a.id = 2

====
